---- MODULE Spec2Model ----
(***************************************************************************)
(* A model of digitalrivers/dem.py (class DEM): sink filling, the eight    *)
(* directional slopes, D8 flow direction and recursive flow accumulation.  *)
(*                                                                         *)
(* Conventions.  A grid is a function from cells <<row, col>> (0-based, as *)
(* numpy indexes them) to values.  Elevations are integers counted in      *)
(* units of 0.1 (the increment fill_sinks adds) and are never negative;    *)
(* NaN stands for numpy.nan.  A slope is kept exactly, as num / sqrt(den2);*)
(* the rounding of float32 is not modelled.                                *)
(***************************************************************************)
EXTENDS Integers, Sequences, FiniteSets, TLC

VARIABLES
    shape,   \* <<rows, columns>> of the raster
    elev,    \* DEM.values of the DEM the methods are called on
    fd,      \* the flow direction raster (None: not there yet)
    acc,     \* the accumulation array of flow_accumulation (None: no call yet)
    stack,   \* the nested accumulate_flow calls, outermost first
    scan,    \* row-major index at which flow_accumulation's loops stand
    pc,      \* "idle", "scan", "walk", "done", "overflow"
    source,  \* the elevations the DEM was read with (None: no DEM)
    raster,  \* a labelled raster read from a file for the utilities that take
             \* one: a basin raster or a bit-coded direction raster (None: none)
    last     \* the last call of a method that returns at once: its arguments,
             \* the array it read, the array it handed back and, for
             \* flow_direction, the slopes it computed on the way

vars == <<shape, elev, fd, acc, stack, scan, pc, source, raster, last>>

----------------------------------------------------------------------------
(* Values and bounds *)

\* numpy.nan in an elevation array: a number no elevation takes
NaN == -1000000
\* no dataset, no array
None == << >>

\* Dataset.default_no_data_value of pyramids, the sentinel of the int32 rasters
NoDataValue == -9999
\* the mark of a cell flow_accumulation has not processed yet
Unprocessed == -1
\* the 0.1 that fill_sinks adds to the lowest neighbour, in units of 0.1
Epsilon == 1

\* elevations of the input rasters are 0..MaxElev
MaxElev == 2
\* an input raster differs from a flat raster in at most MaxEdits cells, and in
\* at most MaxPipelineEdits cells when the whole pipeline is run on it
MaxEdits == 2
MaxPipelineEdits == 1
\* the cell size of the raster
CellSize == 1
\* a direction raster read from a file differs from a uniform one in at most
\* MaxDirEdits cells, and its DEM has at most MaxHoles no-data cells
MaxDirEdits == 1
MaxHoles == 1
\* the depth of nested calls the interpreter allows: sys.setrecursionlimit(50000),
\* scaled to the rasters of the model
RecursionLimit == 3
\* the basins of a basin raster are numbered 1..MaxBasin
MaxBasin == 3

Rows == shape[1]
Cols == shape[2]
CellsOf(sh) == (0 .. sh[1] - 1) \X (0 .. sh[2] - 1)
Cells == CellsOf(shape)
InGrid(r, c) == 0 <= r /\ r < Rows /\ 0 <= c /\ c < Cols

\* the cell at position k of a row-major walk, and back
CellAt(k) == <<k \div Cols, k % Cols>>
IndexOf(cell) == cell[1] * Cols + cell[2]

----------------------------------------------------------------------------
(* DIR_OFFSETS: code -> (column offset, row offset) *)

DIR_OFFSETS ==
    [d \in 0 .. 7 |->
        CASE d = 0 -> <<0, 1>>
          [] d = 1 -> <<-1, 1>>
          [] d = 2 -> <<-1, 0>>
          [] d = 3 -> <<-1, -1>>
          [] d = 4 -> <<0, -1>>
          [] d = 5 -> <<1, -1>>
          [] d = 6 -> <<1, 0>>
          [] d = 7 -> <<1, 1>>]

----------------------------------------------------------------------------
(* NaN arithmetic of numpy *)

IsNaN(x) == x = NaN
Sub(a, b) == IF IsNaN(a) \/ IsNaN(b) THEN NaN ELSE a - b
\* a < b of floats: False as soon as one side is NaN
Less(a, b) == IF IsNaN(a) \/ IsNaN(b) THEN FALSE ELSE a < b

SetMin(S) == CHOOSE m \in S : \A x \in S : m <= x

\* numpy.nanmin of a flattened window given as a sequence
nanmin(f) ==
    LET S == {f[k] : k \in {i \in DOMAIN f : ~IsNaN(f[i])}}
    IN  IF S = {} THEN NaN ELSE SetMin(S)

----------------------------------------------------------------------------
(* fill_sinks *)

\* elev[i - 1 : i + 2, j - 1 : j + 2].flatten() of an interior cell
Window(e, i, j) ==
    [k \in 1 .. 9 |-> e[<<i - 1 + ((k - 1) \div 3), j - 1 + ((k - 1) % 3)>>]]

\* the window with f[4] = nan (position 5 of a 1-based sequence)
WindowNoCenter(e, i, j) == [Window(e, i, j) EXCEPT ![5] = NaN]

\* the interior cells in the order the two loops visit them
InteriorSeq(sh) ==
    [k \in 1 .. ((sh[1] - 2) * (sh[2] - 2)) |->
        <<1 + ((k - 1) \div (sh[2] - 2)), 1 + ((k - 1) % (sh[2] - 2))>>]

\* FillCell with the window taken from the array being written: a raise made
\* earlier in the pass is seen by the cells after it
FillCellFromSinkless(e, sinkless, i, j) ==
    LET min_f == nanmin(WindowNoCenter(sinkless, i, j))
    IN  IF Less(sinkless[<<i, j>>], min_f)
        THEN [sinkless EXCEPT ![<<i, j>>] = min_f + Epsilon]
        ELSE sinkless

\* FillCell with the test written as not (cell >= min_f): true of a nan cell
FillCellNotGreaterEqual(e, sinkless, i, j) ==
    LET min_f == nanmin(WindowNoCenter(e, i, j))
        centre == sinkless[<<i, j>>]
    IN  IF IsNaN(centre) \/ IsNaN(min_f) \/ centre < min_f
        THEN [sinkless EXCEPT ![<<i, j>>] =
                 IF IsNaN(min_f) THEN NaN ELSE min_f + Epsilon]
        ELSE sinkless

\* FillCell that raises the cell to the level of its lowest neighbour only
FillCellToMinimum(e, sinkless, i, j) ==
    LET min_f == nanmin(WindowNoCenter(e, i, j))
    IN  IF Less(sinkless[<<i, j>>], min_f)
        THEN [sinkless EXCEPT ![<<i, j>>] = min_f]
        ELSE sinkless

\* one iteration of the loop body on cell <<i, j>>
FillCell(e, sinkless, i, j) ==
    LET min_f == nanmin(WindowNoCenter(e, i, j))
    IN  IF Less(sinkless[<<i, j>>], min_f)
        THEN [sinkless EXCEPT ![<<i, j>>] = min_f + Epsilon]
        ELSE sinkless

RECURSIVE FillLoop(_, _, _, _)
FillLoop(e, sinkless, order, k) ==
    IF k > Len(order) THEN sinkless
    ELSE FillLoop(e, FillCell(e, sinkless, order[k][1], order[k][2]), order, k + 1)

\* the array fill_sinks hands to dataset_like
fill_sinks(sh, e) ==
    IF sh[1] < 3 \/ sh[2] < 3 THEN e ELSE FillLoop(e, e, InteriorSeq(sh), 1)

----------------------------------------------------------------------------
(* _get_8_direction_slopes *)

\* padded_elev[i, j]: the elevation array inside a one-cell frame of nan
padded_elev(sh, e, i, j) ==
    IF 1 <= i /\ i <= sh[1] /\ 1 <= j /\ j <= sh[2] THEN e[<<i - 1, j - 1>>] ELSE NaN

\* the eight differences at cell <<r, c>>, slice by slice
diff_right(sh, e, r, c) ==
    Sub(padded_elev(sh, e, r + 1, c + 1), padded_elev(sh, e, r + 1, c + 2))
diff_top_right(sh, e, r, c) ==
    Sub(padded_elev(sh, e, r + 1, c + 1), padded_elev(sh, e, r, c + 2))
diff_top(sh, e, r, c) ==
    Sub(padded_elev(sh, e, r + 1, c + 1), padded_elev(sh, e, r, c + 1))
diff_top_left(sh, e, r, c) ==
    Sub(padded_elev(sh, e, r + 1, c + 1), padded_elev(sh, e, r, c))
diff_left(sh, e, r, c) ==
    Sub(padded_elev(sh, e, r + 1, c + 1), padded_elev(sh, e, r + 1, c))
diff_bottom_left(sh, e, r, c) ==
    Sub(padded_elev(sh, e, r + 1, c + 1), padded_elev(sh, e, r + 2, c))
\* diff_bottom taken from the row above, as the docstring of
\* _get_8_direction_slopes numbers the directions
diff_bottom_from_above(sh, e, r, c) ==
    Sub(padded_elev(sh, e, r + 1, c + 1), padded_elev(sh, e, r, c + 1))
diff_bottom(sh, e, r, c) ==
    Sub(padded_elev(sh, e, r + 1, c + 1), padded_elev(sh, e, r + 2, c + 1))
diff_bottom_right(sh, e, r, c) ==
    Sub(padded_elev(sh, e, r + 1, c + 1), padded_elev(sh, e, r + 2, c + 2))

\* distances[d], squared: cell_size for d = 0, 2, 4, 6 and cell_size * sqrt(2)
\* for d = 1, 3, 5, 7
distances2(d) == IF d % 2 = 0 THEN CellSize * CellSize ELSE 2 * CellSize * CellSize

\* a float32 slope: nan, or num / sqrt(den2)
NaNSlope == [nan |-> TRUE, num |-> 0, den2 |-> 1]
Quotient(diff, d) ==
    IF IsNaN(diff) THEN NaNSlope ELSE [nan |-> FALSE, num |-> diff, den2 |-> distances2(d)]

\* slopes[r, c, :]
SlopesAt(sh, e, r, c) ==
    [d \in 0 .. 7 |->
        CASE d = 0 -> Quotient(diff_bottom(sh, e, r, c), 0)
          [] d = 1 -> Quotient(diff_bottom_left(sh, e, r, c), 1)
          [] d = 2 -> Quotient(diff_left(sh, e, r, c), 2)
          [] d = 3 -> Quotient(diff_top_left(sh, e, r, c), 3)
          [] d = 4 -> Quotient(diff_top(sh, e, r, c), 4)
          [] d = 5 -> Quotient(diff_top_right(sh, e, r, c), 5)
          [] d = 6 -> Quotient(diff_right(sh, e, r, c), 6)
          [] d = 7 -> Quotient(diff_bottom_right(sh, e, r, c), 7)]

get_8_direction_slopes(sh, e) ==
    [cell \in CellsOf(sh) |-> SlopesAt(sh, e, cell[1], cell[2])]

----------------------------------------------------------------------------
(* flow_direction *)

Sgn(x) == IF x > 0 THEN 1 ELSE IF x < 0 THEN -1 ELSE 0

\* a > b of two slopes that are not nan: num / sqrt(den2) compared by the
\* signed squares
SlopeGreater(a, b) ==
    Sgn(a.num) * a.num * a.num * b.den2 > Sgn(b.num) * b.num * b.num * a.den2

\* numpy.nanargmax along the last axis: the first index holding the greatest
\* of the values that are not nan (best = -1: none seen yet)
RECURSIVE ArgmaxScan(_, _, _)
ArgmaxScan(s, d, best) ==
    IF d > 7 THEN best
    ELSE IF s[d].nan THEN ArgmaxScan(s, d + 1, best)
    ELSE IF best = -1 \/ SlopeGreater(s[d], s[best]) THEN ArgmaxScan(s, d + 1, d)
    ELSE ArgmaxScan(s, d + 1, best)

\* nanargmax that keeps the last of several greatest values
RECURSIVE ArgmaxScanLast(_, _, _)
ArgmaxScanLast(s, d, best) ==
    IF d > 7 THEN best
    ELSE IF s[d].nan THEN ArgmaxScanLast(s, d + 1, best)
    ELSE IF best = -1 \/ ~SlopeGreater(s[best], s[d]) THEN ArgmaxScanLast(s, d + 1, d)
    ELSE ArgmaxScanLast(s, d + 1, best)

nanargmax_last(s) == ArgmaxScanLast(s, 0, -1)

nanargmax(s) == ArgmaxScan(s, 0, -1)

\* valid_cells_mask without valid_mask: every cell with an elevation is taken
valid_cells_mask_elevation_only(e, slopes, cell) == ~IsNaN(e[cell])

\* valid_cells_mask[cell]
valid_cells_mask(e, slopes, cell) ==
    LET mask == ~IsNaN(e[cell])
        valid_mask == ~(\A d \in 0 .. 7 : slopes[cell][d].nan)
    IN  mask /\ valid_mask

\* the array before the forced directions are written
AutoDirection(sh, e) ==
    LET slopes == get_8_direction_slopes(sh, e)
    IN  [cell \in CellsOf(sh) |->
            IF valid_cells_mask(e, slopes, cell) THEN nanargmax(slopes[cell])
            ELSE NoDataValue]

\* ApplyForced that leaves a cell without a code as it is
RECURSIVE ApplyForcedValidOnly(_, _, _)
ApplyForcedValidOnly(grid, forced, i) ==
    IF i > Len(forced) THEN grid
    ELSE IF grid[forced[i].cell] = NoDataValue
         THEN ApplyForcedValidOnly(grid, forced, i + 1)
    ELSE ApplyForcedValidOnly([grid EXCEPT ![forced[i].cell] = forced[i].direction],
                              forced, i + 1)

\* the loop over forced_direction: row i of the frame is written at indices[i]
RECURSIVE ApplyForced(_, _, _)
ApplyForced(grid, forced, i) ==
    IF i > Len(forced) THEN grid
    ELSE ApplyForced([grid EXCEPT ![forced[i].cell] = forced[i].direction], forced, i + 1)

\* the array flow_direction hands to create_from_array
flow_direction(sh, e, forced) == ApplyForced(AutoDirection(sh, e), forced, 1)

----------------------------------------------------------------------------
(* convert_flow_direction_to_cell_indices *)

\* flow_direction.values: the no-data value of the direction raster read as nan
flow_dir(sh, e) ==
    LET flow_direction_array == flow_direction(sh, e, << >>)
    IN  [cell \in CellsOf(sh) |->
            IF flow_direction_array[cell] = NoDataValue THEN NaN
            ELSE flow_direction_array[cell]]

\* flow_direction_cell[i, j, :]: nan, nan or i + indices[0], j + indices[1]
\* (the components of a tuple are numbered from 1 here)
convert_flow_direction_to_cell_indices(sh, e) ==
    [cell \in CellsOf(sh) |->
        IF ~IsNaN(flow_dir(sh, e)[cell])
        THEN LET ind == flow_dir(sh, e)[cell]
                 indices == DIR_OFFSETS[ind]
             IN  <<cell[1] + indices[1], cell[2] + indices[2]>>
        ELSE <<NaN, NaN>>]

----------------------------------------------------------------------------
(* accumulate_flow and flow_accumulation *)

\* opposite_direction: the first code whose offset is (-dc, -dr), as <<d>>;
\* << >> is Python's None
RECURSIVE OppositeScan(_, _, _)
OppositeScan(dr, dc, d) ==
    IF d > 7 THEN << >>
    ELSE IF DIR_OFFSETS[d][2] = -dr /\ DIR_OFFSETS[d][1] = -dc THEN <<d>>
    ELSE OppositeScan(dr, dc, d + 1)

\* opposite_direction with the column offset compared without its sign turned
RECURSIVE OppositeScanSameColumn(_, _, _)
OppositeScanSameColumn(dr, dc, d) ==
    IF d > 7 THEN << >>
    ELSE IF DIR_OFFSETS[d][2] = -dr /\ DIR_OFFSETS[d][1] = dc THEN <<d>>
    ELSE OppositeScanSameColumn(dr, dc, d + 1)

opposite_direction_same_column(dr, dc) == OppositeScanSameColumn(dr, dc, 0)

opposite_direction(dr, dc) == OppositeScan(dr, dc, 0)

\* the neighbour the loop of accumulate_flow looks at for entry k of
\* dir_offsets.values(): dc, dr = value; rr, cc = r + dr, c + dc
NeighbourAt(r, c, k) == <<r + DIR_OFFSETS[k][2], c + DIR_OFFSETS[k][1]>>

\* the test that makes the loop recurse into the neighbour of entry k
FlowsInto(sh, dirs, r, c, k) ==
    LET rr == NeighbourAt(r, c, k)[1]
        cc == NeighbourAt(r, c, k)[2]
        current_opposite == opposite_direction(DIR_OFFSETS[k][2], DIR_OFFSETS[k][1])
    IN  /\ 0 <= rr /\ rr < sh[1] /\ 0 <= cc /\ cc < sh[2]
        /\ current_opposite # << >>
        /\ dirs[<<rr, cc>>] = current_opposite[1]

\* NextUpstream over the entries of the rows and columns only, the diagonal
\* entries 1, 3, 5, 7 being passed over
RECURSIVE NextUpstreamStraightOnly(_, _, _, _, _)
NextUpstreamStraightOnly(sh, dirs, r, c, k) ==
    IF k > 7 THEN 8
    ELSE IF k % 2 = 0 /\ FlowsInto(sh, dirs, r, c, k) THEN k
    ELSE NextUpstreamStraightOnly(sh, dirs, r, c, k + 1)

\* the first entry at or after k whose neighbour flows into <<r, c>>; 8: none
RECURSIVE NextUpstream(_, _, _, _, _)
NextUpstream(sh, dirs, r, c, k) ==
    IF k > 7 THEN 8
    ELSE IF FlowsInto(sh, dirs, r, c, k) THEN k
    ELSE NextUpstream(sh, dirs, r, c, k + 1)

\* Frame with the total started at 1, the cell counting itself
FrameCountsSelf(r, c) == [r |-> r, c |-> c, k |-> 0, total |-> 1]

\* a call of accumulate_flow that got past its first test: its cell, the
\* number of entries of dir_offsets its loop has consumed, and its total
Frame(r, c) == [r |-> r, c |-> c, k |-> 0, total |-> 0]

Top == stack[Len(stack)]
TopNext == NextUpstream(shape, fd, Top.r, Top.c, Top.k)
TopNeighbour == NeighbourAt(Top.r, Top.c, TopNext)

\* acc as flow_accumulation sets it up before its loops
InitialAcc(sh, e) ==
    [cell \in CellsOf(sh) |-> IF IsNaN(e[cell]) THEN NoDataValue ELSE Unprocessed]

\* the first index at or after k, in row-major order, of a cell that is
\* still unprocessed; Rows * Cols: none
RECURSIVE NextRoot(_, _, _)
NextRoot(sh, a, k) ==
    IF k >= sh[1] * sh[2] THEN sh[1] * sh[2]
    ELSE IF a[<<k \div sh[2], k % sh[2]>>] = Unprocessed THEN k
    ELSE NextRoot(sh, a, k + 1)

----------------------------------------------------------------------------
(* flow_direction_index and flow_direction_table *)

fd_should == {1, 2, 4, 8, 16, 32, 64, 128}

\* np.unique of the cells that are not the no-data value
fd_val(sh, a) == {a[cell] : cell \in {x \in CellsOf(sh) : a[x] # NoDataValue}}

\* the ValueError of flow_direction_index; names: the numbers its message holds
InvalidCodes ==
    [type |-> "ValueError",
     message |-> "flow direction raster should contain values 1,2,4,8,16,32,64,128 only ",
     names |-> {1, 2, 4, 8, 16, 32, 64, 128}]
NoError == [type |-> "none", message |-> "", names |-> {}]

\* fd_cell[i, j, :]: the (row, column) the code of cell (i, j) points to,
\* (nan, nan) for a cell that holds none of the eight codes
fd_cell_at(a, i, j) ==
    CASE a[<<i, j>>] = 1 -> <<i, j + 1>>
      [] a[<<i, j>>] = 128 -> <<i - 1, j + 1>>
      [] a[<<i, j>>] = 64 -> <<i - 1, j>>
      [] a[<<i, j>>] = 32 -> <<i - 1, j - 1>>
      [] a[<<i, j>>] = 16 -> <<i, j - 1>>
      [] a[<<i, j>>] = 8 -> <<i + 1, j - 1>>
      [] a[<<i, j>>] = 4 -> <<i + 1, j>>
      [] a[<<i, j>>] = 2 -> <<i + 1, j + 1>>
      [] OTHER -> <<NaN, NaN>>

fd_cell(sh, a) == [cell \in CellsOf(sh) |-> fd_cell_at(a, cell[1], cell[2])]

\* flow_direction_index: the error it raises and the array it returns
flow_direction_index(sh, a) ==
    IF \A v \in fd_val(sh, a) : v \in fd_should
    THEN [error |-> NoError, out |-> fd_cell(sh, a)]
    ELSE [error |-> InvalidCodes, out |-> None]

\* the first loops of flow_direction_table: the cells with an index, in
\* row-major order from position k on (cell_i, cell_j)
RECURSIVE CellsWithIndex(_, _, _)
CellsWithIndex(sh, index, k) ==
    IF k >= sh[1] * sh[2] THEN << >>
    ELSE LET cell == <<k \div sh[2], k % sh[2]>>
         IN  IF ~IsNaN(index[cell][1])
             THEN <<cell>> \o CellsWithIndex(sh, index, k + 1)
             ELSE CellsWithIndex(sh, index, k + 1)

\* the key of cell (i, j): str(i) + "," + str(j)
name(i, j) == ToString(i) \o "," \o ToString(j)

\* GivingCells with the test reduced to the row: i == celli_content[k]
GivingCellsRowOnly(sh, index, i, j) ==
    SelectSeq(CellsWithIndex(sh, index, 0), LAMBDA c : index[c][1] = i)

\* the list stored under the key of cell (i, j): the cells whose index is (i, j)
GivingCells(sh, index, i, j) ==
    SelectSeq(CellsWithIndex(sh, index, 0), LAMBDA c : index[c] = <<i, j>>)

\* flow_acc_table
flow_acc_table(sh, index) ==
    LET keyed == {c \in CellsOf(sh) : ~IsNaN(index[c][1])}
    IN  [key \in {name(c[1], c[2]) : c \in keyed} |->
            LET c == CHOOSE x \in keyed : name(x[1], x[2]) = key
            IN  GivingCells(sh, index, c[1], c[2])]

\* flow_direction_table: the error of flow_direction_index, or the table
flow_direction_table(sh, a) ==
    LET index == flow_direction_index(sh, a)
    IN  IF index.error # NoError THEN [error |-> index.error, out |-> None]
        ELSE [error |-> NoError, out |-> flow_acc_table(sh, index.out)]

----------------------------------------------------------------------------
(* delete_basins *)

\* the basin numbers of the raster: the list comprehension of the cells that
\* are not no-data, made a set
basin_numbers(sh, a) == {a[cell] : cell \in {x \in CellsOf(sh) : a[x] # NoDataValue}}

\* the slot of a small int in the table of a CPython set of at most four
\* entries: hash(v) & 7, the hash of an int below 2^61 - 1 being the int
SetSlot(v) == v % 8

\* list(set(...))[0]: the entry in the lowest slot of the table
FirstOfSet(S) == CHOOSE v \in S : \A w \in S : SetSlot(v) <= SetSlot(w)

\* basins_val[0]
kept_basin(sh, a) == FirstOfSet(basin_numbers(sh, a))

\* basins_a after the loops that fill the other basins with the no-data value
delete_basins(sh, a) ==
    [cell \in CellsOf(sh) |->
        IF a[cell] # NoDataValue /\ a[cell] # kept_basin(sh, a)
        THEN NoDataValue ELSE a[cell]]

----------------------------------------------------------------------------
(* The inputs *)

\* the grids that differ from the grid holding base everywhere in at most k
\* cells, each changed to a value of vals
Variants(sh, base, vals, k) ==
    LET changed == {T \in SUBSET CellsOf(sh) : Cardinality(T) <= k}
        edits == UNION {[T -> vals \ {base}] : T \in changed}
    IN  {[cell \in CellsOf(sh) |-> IF cell \in DOMAIN f THEN f[cell] ELSE base] :
            f \in edits}

ElevValues == (0 .. MaxElev) \cup {NaN}
ElevBases == {NaN, 1}
ElevGrids(sh, k) == UNION {Variants(sh, base, ElevValues, k) : base \in ElevBases}

\* the DEMs of the flow accumulation runs: only their no-data mask is read
MaskGrids(sh) == Variants(sh, 0, {NaN}, MaxHoles)

\* direction rasters as a file may hold them
DirValues == (0 .. 7) \cup {NoDataValue}
DirBases == {0, 2}
DirGrids(sh) == UNION {Variants(sh, base, DirValues, MaxDirEdits) : base \in DirBases}

\* forced_direction with its points mapped to array indices: no point, or one
\* outfall point at a corner of the first column
Forced(cell, direction) == [cell |-> cell, direction |-> direction]
Outfalls(sh) == {<<0, 0>>, <<sh[1] - 1, 0>>}
ForcedLists(sh) ==
    {<< >>} \cup {<<Forced(cell, d)>> : cell \in Outfalls(sh), d \in 0 .. 7}

\* forced_direction with two points, the second one sending the flow down or
\* up; the two may fall in the same cell
SecondCodes == {0, 4}
ForcedPairs(sh) ==
    {<<Forced(a, d), Forced(b, e)>> :
        a \in Outfalls(sh), b \in Outfalls(sh), d \in 0 .. 7, e \in SecondCodes}

\* basin rasters: every cell holds a basin number or the no-data value
BasinGrids(sh) == [CellsOf(sh) -> (1 .. MaxBasin) \cup {NoDataValue}]

\* bit-coded direction rasters: every cell holds one of the eight codes, a
\* value that is no code, or the no-data value
BadCodes == {3}
BitGrids(sh) == [CellsOf(sh) -> fd_should \cup BadCodes \cup {NoDataValue}]

\* DEMs whose outermost ring is flat or no-data and whose interior cells hold
\* any elevations
RingValues == {NaN, MaxElev}
RingGrids(sh) ==
    LET inner == {InteriorSeq(sh)[k] : k \in DOMAIN InteriorSeq(sh)}
    IN  UNION {{[cell \in CellsOf(sh) |-> IF cell \in inner THEN f[cell] ELSE ring] :
                   f \in [inner -> ElevValues]} : ring \in RingValues}

FillShapes == {<<3, 3>>, <<3, 4>>}
DirShapes == {<<3, 3>>, <<1, 4>>}
AccShapes == {<<2, 3>>}
PipelineShapes == {<<3, 3>>}
BasinShapes == {<<2, 3>>}
OrderShapes == {<<4, 4>>}
TableShapes == {<<2, 2>>}

NoCall == [op |-> "none"]

Started(shapes) ==
    /\ shape \in shapes
    /\ acc = None
    /\ stack = << >>
    /\ scan = 0
    /\ pc = "idle"
    /\ last = NoCall

\* a DEM read from a file
InitElev(shapes, k) ==
    /\ Started(shapes)
    /\ raster = None
    /\ elev \in ElevGrids(shape, k)
    /\ source = elev
    /\ fd = None

\* a DEM and a flow direction raster, both read from files
InitAcc ==
    /\ Started(AccShapes)
    /\ raster = None
    /\ elev \in MaskGrids(shape)
    /\ source = elev
    /\ fd \in DirGrids(shape)

\* a basin raster read from a file with gdal
InitBasins ==
    /\ Started(BasinShapes)
    /\ raster \in BasinGrids(shape)
    /\ elev = None
    /\ source = None
    /\ fd = None

\* a DEM object opened on a bit-coded flow direction raster
InitTable ==
    /\ Started(TableShapes)
    /\ raster \in BitGrids(shape)
    /\ elev = None
    /\ source = None
    /\ fd = None

\* a DEM read from a file, for the passes of fill_sinks in any order
InitOrder ==
    /\ Started(OrderShapes)
    /\ raster = None
    /\ elev \in RingGrids(shape)
    /\ source = elev
    /\ fd = None

\* 3 x 3 DEMs with a pit in the middle: the centre at 0 and every border cell
\* at any height above it, up to one step above the highest elevation
PitGrids(sh) ==
    {[cell \in CellsOf(sh) |-> IF cell = <<1, 1>> THEN 0 ELSE b[cell]] :
        b \in [CellsOf(sh) \ {<<1, 1>>} -> 1 .. MaxElev + 1]}

\* a DEM with a pit in the middle, read from a file
InitPit ==
    /\ Started(PipelineShapes)
    /\ raster = None
    /\ elev \in PitGrids(shape)
    /\ source = elev
    /\ fd = None

\* a DEM without no-data cells and a flow direction raster, read from files
InitAccOrder ==
    /\ Started(AccShapes)
    /\ raster = None
    /\ elev = [cell \in CellsOf(shape) |-> 0]
    /\ source = elev
    /\ fd \in DirGrids(shape)

----------------------------------------------------------------------------
(* The operations *)

\* fill_sinks up to its loops: elev_sinkless = np.copy(elev), every interior
\* cell still to be visited
StartFill ==
    /\ pc = "idle"
    /\ last = NoCall
    /\ fd = None
    /\ last' = [op |-> "fill_cells", in |-> elev, out |-> elev,
                pending |-> {InteriorSeq(shape)[k] : k \in DOMAIN InteriorSeq(shape)}]
    /\ UNCHANGED <<source, raster, shape, elev, fd, acc, stack, scan, pc>>

\* the body of the loops run on one interior cell, the cells taken in any order
FillOne(cell) ==
    /\ last.op = "fill_cells"
    /\ cell \in last.pending
    /\ last' = [last EXCEPT !.out = FillCell(last.in, last.out, cell[1], cell[2]),
                            !.pending = @ \ {cell}]
    /\ UNCHANGED <<source, raster, shape, elev, fd, acc, stack, scan, pc>>

\* convert_flow_direction_to_cell_indices()
ConvertFlowDirectionToCellIndices ==
    /\ pc = "idle"
    /\ last.op # "convert_flow_direction_to_cell_indices"
    /\ last' = [op |-> "convert_flow_direction_to_cell_indices", in |-> elev,
                slopes |-> get_8_direction_slopes(shape, elev),
                flow_dir |-> flow_dir(shape, elev),
                out |-> convert_flow_direction_to_cell_indices(shape, elev)]
    /\ UNCHANGED <<source, raster, shape, elev, fd, acc, stack, scan, pc>>

\* flow_direction_index()
FlowDirectionIndex ==
    /\ pc = "idle"
    /\ raster # None
    /\ last.op # "flow_direction_index"
    /\ LET res == flow_direction_index(shape, raster)
       IN  last' = [op |-> "flow_direction_index", error |-> res.error,
                    in |-> raster, out |-> res.out]
    /\ UNCHANGED <<source, raster, shape, elev, fd, acc, stack, scan, pc>>

\* flow_direction_table()
FlowDirectionTable ==
    /\ pc = "idle"
    /\ raster # None
    /\ last.op # "flow_direction_table"
    /\ LET res == flow_direction_table(shape, raster)
       IN  last' = [op |-> "flow_direction_table", error |-> res.error,
                    in |-> raster, out |-> res.out]
    /\ UNCHANGED <<source, raster, shape, elev, fd, acc, stack, scan, pc>>

\* delete_basins(basins, path): TypeError when path is not a string or basins
\* is not a gdal dataset; otherwise the array read from basins is pruned and
\* written to path, the dataset itself staying as it was
DeleteBasins(typed) ==
    /\ pc = "idle"
    /\ last = NoCall
    /\ raster # None
    /\ last' = IF typed
               THEN [op |-> "delete_basins", error |-> "none", in |-> raster,
                     out |-> delete_basins(shape, raster)]
               ELSE [op |-> "delete_basins", error |-> "TypeError", in |-> raster,
                     out |-> None]
    /\ UNCHANGED <<source, raster, shape, elev, fd, acc, stack, scan, pc>>

\* fill_sinks(inplace): dataset_like keeps nan as no-data; with inplace the DEM
\* is initialised again from the new raster, otherwise the raster is returned
FillSinks(inplace) ==
    /\ pc = "idle"
    /\ last = NoCall
    /\ fd = None
    /\ LET elev_sinkless == fill_sinks(shape, elev)
       IN  /\ elev' = IF inplace THEN elev_sinkless ELSE elev
           /\ last' = [op |-> "fill_sinks", inplace |-> inplace,
                       in |-> elev, out |-> elev_sinkless]
    /\ UNCHANGED <<source, raster, shape, fd, acc, stack, scan, pc>>

\* flow_direction(forced_direction)
FlowDirection(forced) ==
    /\ pc = "idle"
    /\ fd = None
    /\ fd' = flow_direction(shape, elev, forced)
    /\ last' = [op |-> "flow_direction", forced |-> forced, in |-> elev,
                slopes |-> get_8_direction_slopes(shape, elev), out |-> fd']
    /\ UNCHANGED <<source, raster, shape, elev, acc, stack, scan, pc>>

\* flow_accumulation(flow_direction) up to its loops
FlowAccumulation ==
    /\ pc = "idle"
    /\ fd # None
    /\ acc' = InitialAcc(shape, elev)
    /\ scan' = 0
    /\ stack' = << >>
    /\ pc' = "scan"
    /\ UNCHANGED <<source, raster, shape, elev, fd, last>>

\* the loops reach the next unprocessed cell and call accumulate_flow on it
Root ==
    /\ pc = "scan"
    /\ LET k == NextRoot(shape, acc, scan)
       IN  /\ k < Rows * Cols
           /\ stack' = <<Frame(CellAt(k)[1], CellAt(k)[2])>>
           /\ scan' = k + 1
    /\ pc' = "walk"
    /\ UNCHANGED <<source, raster, shape, elev, fd, acc, last>>

\* Finish with the outer loop written as range(rows - 1): the last row is
\* never looked at
FinishBeforeLastRow ==
    /\ pc = "scan"
    /\ NextRoot(shape, acc, scan) >= (Rows - 1) * Cols
    /\ pc' = "done"
    /\ UNCHANGED <<source, raster, shape, elev, fd, acc, stack, scan, last>>

\* the loops end and the array is returned as a dataset
Finish ==
    /\ pc = "scan"
    /\ NextRoot(shape, acc, scan) = Rows * Cols
    /\ pc' = "done"
    /\ UNCHANGED <<source, raster, shape, elev, fd, acc, stack, scan, last>>

\* CacheHit that adds the neighbour's value without the 1 for the neighbour
CacheHitNoCount ==
    /\ pc = "walk"
    /\ TopNext < 8
    /\ acc[TopNeighbour] >= 0
    /\ stack' = [stack EXCEPT ![Len(stack)] =
                    [@ EXCEPT !.k = TopNext + 1, !.total = @ + acc[TopNeighbour]]]
    /\ UNCHANGED <<source, raster, shape, elev, fd, acc, scan, pc, last>>

\* the innermost call reaches an upstream neighbour whose value is there:
\* the nested call returns acc[rr, cc] at once
CacheHit ==
    /\ pc = "walk"
    /\ TopNext < 8
    /\ acc[TopNeighbour] >= 0
    /\ stack' = [stack EXCEPT ![Len(stack)] =
                    [@ EXCEPT !.k = TopNext + 1,
                              !.total = @ + acc[TopNeighbour] + 1]]
    /\ UNCHANGED <<source, raster, shape, elev, fd, acc, scan, pc, last>>

\* Call without the test of acc[r, c] >= 0: the nested call goes on to its
\* loop whether the neighbour has a value or not
CallWithoutCacheTest ==
    /\ pc = "walk"
    /\ TopNext < 8
    /\ Len(stack) < RecursionLimit
    /\ stack' = Append([stack EXCEPT ![Len(stack)] = [@ EXCEPT !.k = TopNext + 1]],
                       Frame(TopNeighbour[1], TopNeighbour[2]))
    /\ UNCHANGED <<source, raster, shape, elev, fd, acc, scan, pc, last>>

\* the innermost call reaches an upstream neighbour without a value: the
\* nested call goes on to its own loop
Call ==
    /\ pc = "walk"
    /\ TopNext < 8
    /\ ~(acc[TopNeighbour] >= 0)
    /\ Len(stack) < RecursionLimit
    /\ stack' = Append([stack EXCEPT ![Len(stack)] = [@ EXCEPT !.k = TopNext + 1]],
                       Frame(TopNeighbour[1], TopNeighbour[2]))
    /\ UNCHANGED <<source, raster, shape, elev, fd, acc, scan, pc, last>>

\* the nested call would be one too deep: RecursionError leaves
\* flow_accumulation, which returns nothing
Overflow ==
    /\ pc = "walk"
    /\ TopNext < 8
    /\ ~(acc[TopNeighbour] >= 0)
    /\ Len(stack) >= RecursionLimit
    /\ pc' = "overflow"
    /\ UNCHANGED <<source, raster, shape, elev, fd, acc, stack, scan, last>>

\* Return whose caller adds the returned total without the 1 for the cell
ReturnNoCount ==
    /\ pc = "walk"
    /\ TopNext = 8
    /\ acc' = [acc EXCEPT ![<<Top.r, Top.c>>] = Top.total]
    /\ IF Len(stack) = 1
       THEN /\ stack' = << >>
            /\ pc' = "scan"
       ELSE /\ stack' = [SubSeq(stack, 1, Len(stack) - 1) EXCEPT ![Len(stack) - 1] =
                            [@ EXCEPT !.total = @ + Top.total]]
            /\ pc' = pc
    /\ UNCHANGED <<source, raster, shape, elev, fd, scan, last>>

\* the innermost call's loop is over: acc[r, c] = total; return total
Return ==
    /\ pc = "walk"
    /\ TopNext = 8
    /\ acc' = [acc EXCEPT ![<<Top.r, Top.c>>] = Top.total]
    /\ IF Len(stack) = 1
       THEN /\ stack' = << >>
            /\ pc' = "scan"
       ELSE /\ stack' = [SubSeq(stack, 1, Len(stack) - 1) EXCEPT ![Len(stack) - 1] =
                            [@ EXCEPT !.total = @ + Top.total + 1]]
            /\ pc' = pc
    /\ UNCHANGED <<source, raster, shape, elev, fd, scan, last>>

Accumulate == FlowAccumulation \/ Root \/ Finish \/ CacheHit \/ Call \/ Overflow \/ Return

----------------------------------------------------------------------------
(* flow_accumulation once more, its roots and neighbours taken in any order *)

\* a call of accumulate_flow whose loop takes the entries of dir_offsets in
\* any order: its cell, the entries consumed and its total
AnyFrame(r, c) == [r |-> r, c |-> c, seen |-> {}, total |-> 0]

\* the entries of the innermost call that its loop still has to act on
TopOpen == {j \in (0 .. 7) \ Top.seen : FlowsInto(shape, fd, Top.r, Top.c, j)}

\* the row-major run is over; its outcome is kept and the run starts again
Again ==
    /\ pc \in {"done", "overflow"}
    /\ last' = [op |-> "flow_accumulation", result |-> pc, out |-> acc]
    /\ acc' = InitialAcc(shape, elev)
    /\ stack' = << >>
    /\ pc' = "any"
    /\ UNCHANGED <<source, raster, shape, elev, fd, scan>>

\* the loops call accumulate_flow on some cell that is still unprocessed
AnyRoot(cell) ==
    /\ pc = "any"
    /\ acc[cell] = Unprocessed
    /\ stack' = <<AnyFrame(cell[1], cell[2])>>
    /\ pc' = "anywalk"
    /\ UNCHANGED <<source, raster, shape, elev, fd, acc, scan, last>>

\* no cell is unprocessed: the array is returned
AnyFinish ==
    /\ pc = "any"
    /\ \A cell \in Cells : acc[cell] # Unprocessed
    /\ pc' = "anydone"
    /\ UNCHANGED <<source, raster, shape, elev, fd, acc, stack, scan, last>>

\* the innermost call acts on entry j: the nested call returns the value that
\* is there, or goes on to its own loop, or is one call too deep
AnyVisit(j) ==
    /\ pc = "anywalk"
    /\ j \in TopOpen
    /\ LET nb == NeighbourAt(Top.r, Top.c, j)
       IN  IF acc[nb] >= 0
           THEN /\ stack' = [stack EXCEPT ![Len(stack)] =
                                [@ EXCEPT !.seen = @ \cup {j},
                                          !.total = @ + acc[nb] + 1]]
                /\ pc' = pc
           ELSE IF Len(stack) < RecursionLimit
           THEN /\ stack' = Append([stack EXCEPT ![Len(stack)] =
                                        [@ EXCEPT !.seen = @ \cup {j}]],
                                   AnyFrame(nb[1], nb[2]))
                /\ pc' = pc
           ELSE /\ stack' = stack
                /\ pc' = "anyoverflow"
    /\ UNCHANGED <<source, raster, shape, elev, fd, acc, scan, last>>

\* the innermost call's loop is over: acc[r, c] = total; return total
AnyReturn ==
    /\ pc = "anywalk"
    /\ TopOpen = {}
    /\ acc' = [acc EXCEPT ![<<Top.r, Top.c>>] = Top.total]
    /\ IF Len(stack) = 1
       THEN /\ stack' = << >>
            /\ pc' = "any"
       ELSE /\ stack' = [SubSeq(stack, 1, Len(stack) - 1) EXCEPT ![Len(stack) - 1] =
                            [@ EXCEPT !.total = @ + Top.total + 1]]
            /\ pc' = pc
    /\ UNCHANGED <<source, raster, shape, elev, fd, scan, last>>

AccumulateAnyOrder ==
    \/ Again
    \/ \E cell \in Cells : AnyRoot(cell)
    \/ AnyFinish
    \/ \E j \in 0 .. 7 : AnyVisit(j)
    \/ AnyReturn

----------------------------------------------------------------------------
(* The specifications *)

NextFill == \E inplace \in BOOLEAN : FillSinks(inplace)
NextDir == \E forced \in ForcedLists(shape) : FlowDirection(forced)

\* sink filling alone
SpecFill == InitElev(FillShapes, MaxEdits) /\ [][NextFill]_vars
\* sink filling with the interior cells visited in any order
NextFillOrder == StartFill \/ \E cell \in Cells : FillOne(cell)
SpecFillOrder == InitOrder /\ [][NextFillOrder]_vars
\* flow direction alone
SpecDir == InitElev(DirShapes, MaxEdits) /\ [][NextDir]_vars
\* flow direction with up to two forced points
NextForced == \E forced \in ForcedLists(shape) \cup ForcedPairs(shape) : FlowDirection(forced)
SpecForced == InitElev(DirShapes, MaxPipelineEdits) /\ [][NextForced]_vars
\* the direction index and the table of upstream cells
NextTable == FlowDirectionIndex \/ FlowDirectionTable
SpecTable == InitTable /\ [][NextTable]_vars
\* basin pruning
NextBasins == \E typed \in BOOLEAN : DeleteBasins(typed)
SpecBasins == InitBasins /\ [][NextBasins]_vars
\* flow accumulation of a direction raster read from a file
SpecAcc == InitAcc /\ [][Accumulate]_vars

\* fill_sinks, then flow_direction without overrides, on a DEM with a pit
NextPit == NextFill \/ FlowDirection(<< >>)
SpecPit == InitPit /\ [][NextPit]_vars

\* the cell indices of the flow directions
SpecCellIndices ==
    InitElev(DirShapes, MaxPipelineEdits) /\ [][ConvertFlowDirectionToCellIndices]_vars

\* flow accumulation in row-major order, then in any order
SpecAccOrder == InitAccOrder /\ [][Accumulate \/ AccumulateAnyOrder]_vars

\* the pipeline: fill_sinks, flow_direction, flow_accumulation
Init == InitElev(PipelineShapes, MaxPipelineEdits)
Next == NextFill \/ NextDir \/ Accumulate
Spec == Init /\ [][Next]_vars

----------------------------------------------------------------------------
(* Notions the properties are stated in *)

Valid(cell) == ~IsNaN(elev[cell])
IsCode(v) == v \in 0 .. 7

\* the cell a direction code held by cell sends the flow to: the row moves by
\* the second component of the code's offset, the column by the first
Target(cell, d) == <<cell[1] + DIR_OFFSETS[d][2], cell[2] + DIR_OFFSETS[d][1]>>

\* cell U flows into cell A under the direction raster dirs
PointsTo(dirs, U, A) == IsCode(dirs[U]) /\ Target(U, dirs[U]) = A

UpstreamOf(dirs, A) == {U \in Cells : PointsTo(dirs, U, A)}

\* the cell reached from cell after n steps along the directions; << >> once
\* the path has left the raster or met a cell without a code
RECURSIVE Follow(_, _, _)
Follow(dirs, cell, n) ==
    IF n = 0 THEN cell
    ELSE IF cell \notin Cells THEN << >>
    ELSE IF ~IsCode(dirs[cell]) THEN << >>
    ELSE Follow(dirs, Target(cell, dirs[cell]), n - 1)

\* some cell transitively flows into itself
HasCycle(dirs) ==
    \E cell \in Cells : \E n \in 1 .. Cardinality(Cells) : Follow(dirs, cell, n) = cell

\* the eight cells around a cell that lie inside the raster
Around(cell) ==
    {n \in Cells : n # cell /\ n[1] - cell[1] \in -1 .. 1 /\ n[2] - cell[2] \in -1 .. 1}

\* the cells other than A whose flow path passes through A
Contributors(dirs, A) ==
    {U \in Cells \ {A} : \E n \in 1 .. Cardinality(Cells) : Follow(dirs, U, n) = A}

RECURSIVE SumOver(_, _)
SumOver(S, a) ==
    IF S = {} THEN 0
    ELSE LET x == CHOOSE y \in S : TRUE
         IN  a[x] + SumOver(S \ {x}, a)

\* a valid cell whose direction has no valid target inside the raster
Terminal(dirs, cell) ==
    /\ Valid(cell)
    /\ ~(/\ IsCode(dirs[cell])
         /\ Target(cell, dirs[cell]) \in Cells
         /\ Valid(Target(cell, dirs[cell])))
Terminals(dirs) == {cell \in Cells : Terminal(dirs, cell)}
\* a terminal cell that no cell flows into
Isolated(dirs) == {cell \in Terminals(dirs) : UpstreamOf(dirs, cell) = {}}
ValidCells == {cell \in Cells : Valid(cell)}

Returned == pc = "done"

----------------------------------------------------------------------------
(* Flow accumulation: the properties *)

\* C1: on a direction raster without a cycle, the returned accumulation of
\* every valid cell A is the sum, over the cells U whose direction points to
\* A, of 1 + accumulation(U); it is 0 when no cell points to A.
C1_AccumulationEquation ==
    (Returned /\ ~HasCycle(fd)) =>
        \A A \in ValidCells :
            acc[A] = Cardinality(UpstreamOf(fd, A)) + SumOver(UpstreamOf(fd, A), acc)

\* a run has returned a raster in which a cell collects two upstream cells,
\* one of them with upstream cells of its own
C1_Witness ==
    /\ Returned
    /\ ~HasCycle(fd)
    /\ \E A \in ValidCells :
          /\ Cardinality(UpstreamOf(fd, A)) >= 2
          /\ \E U \in UpstreamOf(fd, A) : acc[U] >= 1
          /\ acc[A] >= 3
    /\ \E A \in ValidCells : UpstreamOf(fd, A) = {} /\ acc[A] = 0

\* C2 as claimed: a cell that is still being resolved is never entered again
\* (the revisit ends the traversal with a cycle error), and a raster with a
\* cycle never exhausts the call stack.
C2_CycleIsReported ==
    /\ \A i, j \in 1 .. Len(stack) :
          i # j => <<stack[i].r, stack[i].c>> # <<stack[j].r, stack[j].c>>
    /\ HasCycle(fd) => pc # "overflow"

\* C3 as claimed: in the returned raster every cell without an elevation holds
\* the no-data value, and no such cell is counted as an upstream cell.
C3_NoDataKept ==
    Returned =>
        /\ \A cell \in Cells : ~Valid(cell) => acc[cell] = NoDataValue
        /\ \A A \in ValidCells :
              acc[A] <= Cardinality(Contributors(fd, A) \cap ValidCells)

\* C4: when flow_accumulation returns, no cell holds -1 and every cell with an
\* elevation holds a count that is not negative.
C4_NoUnprocessedLeft ==
    Returned =>
        \A cell \in Cells :
            /\ acc[cell] # Unprocessed
            /\ Valid(cell) => acc[cell] >= 0

\* a run has returned after nested calls resolved cells that the loops then
\* found processed
C4_Witness ==
    /\ Returned
    /\ \E cell \in ValidCells : acc[cell] >= 2
    /\ \E cell \in Cells : ~Valid(cell)

\* C5 as claimed: without a cycle, the accumulations of the terminal cells add
\* up to the number of valid cells minus the number of isolated cells.
C5_TerminalSumIsolated ==
    (Returned /\ ~HasCycle(fd)) =>
        SumOver(Terminals(fd), acc)
            = Cardinality(ValidCells) - Cardinality(Isolated(fd))

\* C5, amended: without a cycle, the accumulations of the terminal cells add
\* up to the number of cells that flow into them, a cell counted once for
\* every terminal cell on its path; when every cell without an elevation is
\* without a direction too, that is the number of valid cells minus the
\* number of terminal cells.
C5_TerminalSum ==
    (Returned /\ ~HasCycle(fd)) =>
        /\ SumOver(Terminals(fd), acc)
              = SumOver(Terminals(fd),
                        [T \in Cells |-> Cardinality(Contributors(fd, T))])
        /\ (\A cell \in Cells : ~Valid(cell) => ~IsCode(fd[cell])) =>
              SumOver(Terminals(fd), acc)
                  = Cardinality(ValidCells) - Cardinality(Terminals(fd))

\* a run has returned a raster with a terminal cell that collects other cells
\* and an isolated cell
C5_Witness ==
    /\ Returned
    /\ ~HasCycle(fd)
    /\ \A cell \in Cells : ~Valid(cell) => ~IsCode(fd[cell])
    /\ \E T \in Terminals(fd) : acc[T] >= 2
    /\ Isolated(fd) # {}
    /\ Cardinality(Terminals(fd)) > Cardinality(Isolated(fd))

\* C18: on a direction raster without a cycle, the returned accumulation of
\* every valid cell A is the number of cells other than A whose path, followed
\* code by code from cell to cell, passes through A.
C18_CountsPathsThrough ==
    (Returned /\ ~HasCycle(fd)) =>
        \A A \in ValidCells : acc[A] = Cardinality(Contributors(fd, A))

\* a run has returned a raster in which a cell is passed by the paths of three
\* cells, one of them not its neighbour, and a cell is passed by no path
C18_Witness ==
    /\ Returned
    /\ ~HasCycle(fd)
    /\ \E A \in ValidCells :
          /\ acc[A] >= 3
          /\ Contributors(fd, A) \ Around(A) # {}
    /\ \E A \in ValidCells : Contributors(fd, A) = {} /\ acc[A] = 0

\* C19 as claimed: the walk keeps its own stack, so that accumulate_flow is
\* never nested in itself however long the upstream chain is, and a raster
\* without a cycle never exhausts the depth of calls the interpreter allows.
C19_NoNestedCalls ==
    ~HasCycle(fd) =>
        /\ Len(stack) <= 1
        /\ pc # "overflow"

\* a step of flow_accumulation that writes no entry of acc a second time and
\* takes a value that is there without a nested walk
WrittenOnceStep ==
    /\ \A cell \in Cells : acc[cell] >= 0 => acc'[cell] = acc[cell]
    /\ \A cell \in Cells :
          acc'[cell] # acc[cell] =>
              (pc = "walk" /\ cell = <<Top.r, Top.c>> /\ Len(stack') < Len(stack))
    /\ (pc = "walk" /\ Len(stack') < Len(stack)) => acc[<<Top.r, Top.c>>] < 0
    /\ (pc = "walk" /\ TopNext < 8 /\ acc[TopNeighbour] >= 0) =>
          /\ Len(stack') = Len(stack)
          /\ acc' = acc
          /\ stack'[Len(stack)].total = Top.total + acc[TopNeighbour] + 1

\* C20: during flow_accumulation on a raster without a cycle, an entry of acc
\* is written only while it is negative and keeps its value from then on, and
\* a visit to a cell whose entry is there adds that entry and 1 to the
\* visiting call's total without a nested walk; when the run returns every
\* valid cell has been written.
C20_WrittenOnce ==
    /\ [][(pc \in {"scan", "walk"}) => (WrittenOnceStep \/ HasCycle(fd))]_vars
    /\ [](Returned /\ ~HasCycle(fd) => \A cell \in ValidCells : acc[cell] >= 0)

\* the call on a root cell has visited an upstream cell that an earlier root
\* had resolved, and has taken its value and 1 into its total
C20_Witness ==
    /\ pc = "walk"
    /\ ~HasCycle(fd)
    /\ Len(stack) = 1
    /\ \E j \in 0 .. 7 :
          /\ j < Top.k
          /\ FlowsInto(shape, fd, Top.r, Top.c, j)
          /\ Valid(NeighbourAt(Top.r, Top.c, j))
          /\ IndexOf(NeighbourAt(Top.r, Top.c, j)) < IndexOf(<<Top.r, Top.c>>)
          /\ acc[NeighbourAt(Top.r, Top.c, j)] >= 1
          /\ Top.total >= acc[NeighbourAt(Top.r, Top.c, j)] + 1

\* a step that writes the entry of the innermost call's cell: the cells that
\* point to it hold values that are not negative and stay, and the entry
\* written is made of them
UpstreamFirstStep ==
    (pc = "walk" /\ Len(stack') < Len(stack)) =>
        LET A == <<Top.r, Top.c>>
        IN  /\ \A U \in UpstreamOf(fd, A) : acc[U] >= 0 /\ acc'[U] = acc[U]
            /\ acc'[A] = Cardinality(UpstreamOf(fd, A)) + SumOver(UpstreamOf(fd, A), acc)

\* C21: when flow_accumulation writes the entry of a cell, every cell whose
\* direction points to it holds its value, which is not negative; and an entry
\* that is not negative is the one the run ends with: no later step changes it.
C21_UpstreamFirst ==
    /\ [][UpstreamFirstStep]_vars
    /\ [][(pc \in {"scan", "walk"}) =>
            \A cell \in Cells : acc[cell] >= 0 => acc'[cell] = acc[cell]]_vars

\* in the middle of a run a cell has been written that two cells point to,
\* one of them along a diagonal, while another cell is still unprocessed
C21_Witness ==
    /\ pc \in {"scan", "walk"}
    /\ \E cell \in Cells : acc[cell] = Unprocessed
    /\ \E A \in ValidCells :
          /\ acc[A] >= 2
          /\ Cardinality(UpstreamOf(fd, A)) >= 2
          /\ \E U \in UpstreamOf(fd, A) : fd[U] \in {1, 3, 5, 7}
          /\ \A U \in UpstreamOf(fd, A) : acc[U] >= 0

\* C23 as claimed: on a direction raster without a cycle, a run that takes
\* its roots and its neighbours in any order ends as the row-major run ended,
\* with the same accumulation raster.
C23_AnyOrderSameRaster ==
    (pc \in {"anydone", "anyoverflow"} /\ ~HasCycle(fd)) =>
        /\ pc = "anydone" <=> last.result = "done"
        /\ pc = "anydone" => acc = last.out

----------------------------------------------------------------------------
(* Sink filling: the properties *)

Filled == last.op = "fill_sinks"
Interior == {cell \in Cells : 0 < cell[1] /\ cell[1] < Rows - 1
                              /\ 0 < cell[2] /\ cell[2] < Cols - 1}
\* the elevations that are defined among the cells around a cell, in grid g
DefinedAround(g, cell) == {g[n] : n \in {m \in Around(cell) : ~IsNaN(g[m])}}

\* C6 as claimed: in the raster one call of fill_sinks hands back, no interior
\* cell with an elevation lies strictly below all of its defined neighbours.
C6_NoInteriorSink ==
    Filled =>
        \A cell \in Interior :
            (~IsNaN(last.out[cell]) /\ DefinedAround(last.out, cell) # {}) =>
                last.out[cell] >= SetMin(DefinedAround(last.out, cell))

\* C7: an interior cell is set to the lowest defined elevation around it in
\* the input, plus 0.1, exactly when its input elevation is strictly below
\* that lowest elevation; every other interior cell keeps its input value.
C7_RaisedFromInput ==
    Filled =>
        \A cell \in Interior :
            LET around == DefinedAround(last.in, cell)
                isSink == /\ ~IsNaN(last.in[cell])
                          /\ around # {}
                          /\ last.in[cell] < SetMin(around)
            IN  last.out[cell] =
                    IF isSink THEN SetMin(around) + Epsilon ELSE last.in[cell]

\* fill_sinks has raised an interior cell next to a later interior cell that
\* lies below the raised value and was kept
C7_Witness ==
    /\ Filled
    /\ \E a, b \in Interior :
          /\ b \in Around(a)
          /\ IndexOf(a) < IndexOf(b)
          /\ last.out[a] # last.in[a]
          /\ ~IsNaN(last.in[b])
          /\ last.out[b] = last.in[b]
          /\ last.in[b] < last.out[a]
    /\ \E c \in Cells : IsNaN(last.in[c])

\* C8: fill_sinks changes no cell of the outermost ring, hands back a raster
\* of the same shape with the same no-data cells, and with inplace = False
\* leaves the elevations of the DEM it was called on as they were.
C8_FillFrame ==
    Filled =>
        /\ DOMAIN last.out = DOMAIN last.in
        /\ \A cell \in Cells \ Interior : last.out[cell] = last.in[cell]
        /\ \A cell \in Cells : IsNaN(last.out[cell]) <=> IsNaN(last.in[cell])
        /\ ~last.inplace => elev = last.in

\* fill_sinks(inplace = False) has raised a cell of a DEM with no-data cells
\* in the interior and on the ring
C8_Witness ==
    /\ Filled
    /\ ~last.inplace
    /\ last.out # last.in
    /\ \E cell \in Interior : IsNaN(last.in[cell])
    /\ \E cell \in Cells \ Interior : IsNaN(last.in[cell])

\* C22: whatever the order in which the interior cells are visited, a visited
\* cell holds what the row-major pass of fill_sinks gives it and a cell not yet
\* visited holds its input, so that every order ends with the raster of the
\* row-major pass.
C22_AnyOrderSameRaster ==
    last.op = "fill_cells" =>
        \A cell \in Cells :
            last.out[cell] = IF cell \in last.pending THEN last.in[cell]
                             ELSE fill_sinks(shape, last.in)[cell]

\* every interior cell has been visited, and a cell was raised above an
\* interior neighbour that was kept
C22_Witness ==
    /\ last.op = "fill_cells"
    /\ last.pending = {}
    /\ \E a, b \in Interior :
          /\ b \in Around(a)
          /\ last.out[a] # last.in[a]
          /\ ~IsNaN(last.in[b])
          /\ last.out[b] = last.in[b]
          /\ last.in[b] < last.out[a]

----------------------------------------------------------------------------
(* Slopes and flow direction: the properties *)

Directed == last.op = "flow_direction"
Overridden == {last.forced[i].cell : i \in DOMAIN last.forced}
DefinedCodes(cell) == {d \in 0 .. 7 : ~last.slopes[cell][d].nan}

\* C9: slope d of a cell is undefined when the cell is no-data or the
\* neighbour at d's offset is outside the raster or no-data; otherwise it is
\* (cell - neighbour) / distance, the distance being the cell size for d in
\* 0, 2, 4, 6 and the cell size times sqrt(2) for d in 1, 3, 5, 7.
C9_Slopes ==
    Directed =>
        \A cell \in Cells : \A d \in 0 .. 7 :
            LET n == Target(cell, d)
                s == last.slopes[cell][d]
                undefined == IsNaN(elev[cell]) \/ n \notin Cells \/ IsNaN(elev[n])
            IN  /\ s.nan <=> undefined
                /\ ~undefined =>
                      /\ s.num = elev[cell] - elev[n]
                      /\ s.den2 = IF d \in {0, 2, 4, 6} THEN CellSize * CellSize
                                  ELSE 2 * CellSize * CellSize
                /\ Cardinality(DefinedCodes(cell)) <= 8

\* the slopes of a DEM were computed in which a cell drops towards a diagonal
\* neighbour, a cell rises towards a neighbour, a valid cell has a no-data
\* neighbour and a valid cell has a neighbour outside the raster
C9_Witness ==
    /\ Directed
    /\ \E cell \in Cells : \E d \in {1, 3, 5, 7} :
          ~last.slopes[cell][d].nan /\ last.slopes[cell][d].num > 0
    /\ \E cell \in Cells : \E d \in 0 .. 7 :
          ~last.slopes[cell][d].nan /\ last.slopes[cell][d].num < 0
    /\ \E cell \in Cells : \E d \in 0 .. 7 :
          /\ Valid(cell)
          /\ Target(cell, d) \in Cells
          /\ last.slopes[cell][d].nan
    /\ \E cell \in Cells : \E d \in 0 .. 7 :
          /\ Valid(cell)
          /\ Target(cell, d) \notin Cells
          /\ last.slopes[cell][d].nan

\* C10: a valid cell without an override gets the code of the greatest of its
\* defined slopes, the smallest such code when several share it.
C10_SteepestLowestCode ==
    Directed =>
        \A cell \in Cells \ Overridden :
            (Valid(cell) /\ DefinedCodes(cell) # {}) =>
                LET d == fd[cell]
                    s == last.slopes[cell]
                IN  /\ d \in DefinedCodes(cell)
                    /\ \A e \in DefinedCodes(cell) : ~SlopeGreater(s[e], s[d])
                    /\ \A e \in DefinedCodes(cell) : e < d => SlopeGreater(s[d], s[e])

\* flow_direction has given a code other than the first defined one to a cell
\* whose greatest slope is shared by a later code, and the first defined code
\* to a flat cell
C10_Witness ==
    /\ Directed
    /\ \E cell \in Cells \ Overridden :
          /\ Valid(cell)
          /\ IsCode(fd[cell])
          /\ \E e \in DefinedCodes(cell) : e < fd[cell]
          /\ \E e \in DefinedCodes(cell) :
                /\ e > fd[cell]
                /\ ~SlopeGreater(last.slopes[cell][fd[cell]], last.slopes[cell][e])
    /\ \E cell \in Cells \ Overridden :
          /\ Valid(cell)
          /\ Cardinality(DefinedCodes(cell)) >= 2
          /\ \A e \in DefinedCodes(cell) : last.slopes[cell][e].num = 0
          /\ \A e \in DefinedCodes(cell) : fd[cell] <= e

\* C11: after flow_direction without overrides a cell holds a code of 0..7
\* exactly when it has an elevation and at least one defined slope, and every
\* other cell holds the no-data value.
C11_CodeIffValid ==
    (Directed /\ last.forced = << >>) =>
        \A cell \in Cells :
            /\ IsCode(fd[cell]) <=> (Valid(cell) /\ DefinedCodes(cell) # {})
            /\ ~IsCode(fd[cell]) => fd[cell] = NoDataValue

\* flow_direction without overrides has met a cell with a code, a no-data
\* cell and a cell with an elevation whose neighbours are all no-data or
\* outside the raster
C11_Witness ==
    /\ Directed
    /\ last.forced = << >>
    /\ \E cell \in Cells : IsCode(fd[cell])
    /\ \E cell \in Cells : ~Valid(cell) /\ fd[cell] = NoDataValue
    /\ \E cell \in Cells :
          /\ Valid(cell)
          /\ DefinedCodes(cell) = {}
          /\ fd[cell] = NoDataValue

\* the value the automatic assignment gives a cell
AutoAssigned(cell, v) ==
    IF Valid(cell) /\ DefinedCodes(cell) # {}
    THEN /\ v \in DefinedCodes(cell)
         /\ \A e \in DefinedCodes(cell) :
               ~SlopeGreater(last.slopes[cell][e], last.slopes[cell][v])
         /\ \A e \in DefinedCodes(cell) :
               e < v => SlopeGreater(last.slopes[cell][v], last.slopes[cell][e])
    ELSE v = NoDataValue

\* C12: after flow_direction with forced overrides, every overridden cell holds
\* the code of its last override in the list, whether the cell was valid or
\* not, and every other cell holds the automatically assigned value.
C12_Overrides ==
    Directed =>
        /\ \A i \in DOMAIN last.forced :
              (\A j \in DOMAIN last.forced :
                    j > i => last.forced[j].cell # last.forced[i].cell)
                  => fd[last.forced[i].cell] = last.forced[i].direction
        /\ \A cell \in Cells \ Overridden : AutoAssigned(cell, fd[cell])

\* flow_direction has overridden a no-data cell twice with different codes
\* and left a valid cell with its automatic code
C12_Witness ==
    /\ Directed
    /\ Len(last.forced) = 2
    /\ last.forced[1].cell = last.forced[2].cell
    /\ last.forced[1].direction # last.forced[2].direction
    /\ ~Valid(last.forced[2].cell)
    /\ fd[last.forced[2].cell] = last.forced[2].direction
    /\ \E cell \in Cells \ Overridden : IsCode(fd[cell])

----------------------------------------------------------------------------
(* Basin pruning: the properties *)

Pruned == last.op = "delete_basins" /\ last.error = "none"

\* the basin number of the first cell of a row-major scan, from index k on,
\* that is not no-data
RECURSIVE FirstInScan(_, _)
FirstInScan(a, k) ==
    IF a[CellAt(k)] # NoDataValue THEN a[CellAt(k)] ELSE FirstInScan(a, k + 1)

\* C13 as claimed: for a basin raster with a cell that is not no-data, the
\* raster delete_basins writes holds exactly one basin number, the number of
\* the first such cell in a row-major scan of the input.
C13_KeepsFirstInScan ==
    (Pruned /\ \E cell \in Cells : last.in[cell] # NoDataValue) =>
        {last.out[cell] : cell \in Cells} \ {NoDataValue} = {FirstInScan(last.in, 0)}

----------------------------------------------------------------------------
(* The direction index and the table of upstream cells: the properties *)

Indexed == last.op = "flow_direction_index"
Tabled == last.op = "flow_direction_table"
\* the cells of the bit-coded raster that are not no-data
Coded == {cell \in Cells : raster[cell] # NoDataValue}
\* the values of the raster that are none of the eight codes
Offending == {raster[cell] : cell \in Coded} \ {1, 2, 4, 8, 16, 32, 64, 128}

\* C14 as claimed: with a value that is none of the eight codes in a cell that
\* is not no-data, building the index or the table fails with an invalid-input
\* error that names an offending value and returns nothing; with only the
\* eight codes there is no error.
C14_InvalidCodeNamed ==
    (Indexed \/ Tabled) =>
        /\ Offending # {} =>
              /\ last.error.type = "ValueError"
              /\ last.out = None
              /\ \E v \in Offending : v \in last.error.names
        /\ Offending = {} => last.error.type = "none"

\* the step of a bit code on the raster, as <<rows, columns>>: 1 east, 2 south
\* east, 4 south, 8 south west, 16 west, 32 north west, 64 north, 128 north east
BitStep ==
    (1 :> <<0, 1>>) @@ (2 :> <<1, 1>>) @@ (4 :> <<1, 0>>) @@ (8 :> <<1, -1>>) @@
    (16 :> <<0, -1>>) @@ (32 :> <<-1, -1>>) @@ (64 :> <<-1, 0>>) @@ (128 :> <<-1, 1>>)

\* the downstream cell of a cell that holds one of the eight codes
Downstream(cell) ==
    <<cell[1] + BitStep[raster[cell]][1], cell[2] + BitStep[raster[cell]][2]>>

\* the cells a list of the table holds
Listed(key) == {last.out[key][k] : k \in DOMAIN last.out[key]}

\* C15: the table flow_direction_table returns has one key for every cell
\* that is not no-data and no other key; the list under cell (i, j) holds,
\* once each, the cells that are not no-data and whose downstream cell is
\* (i, j), and is empty for a cell no cell points to.
C15_Table ==
    (Tabled /\ last.error.type = "none") =>
        /\ DOMAIN last.out = {name(c[1], c[2]) : c \in Coded}
        /\ \A c \in Coded :
              LET key == name(c[1], c[2])
                  giving == {u \in Coded : Downstream(u) = c}
              IN  /\ Listed(key) = giving
                  /\ Len(last.out[key]) = Cardinality(giving)
                  /\ giving = {} => last.out[key] = << >>

\* a table was returned in which a cell has two cells in its list, a cell has
\* an empty list, a cell without data has no key and a cell points out of the
\* raster
C15_Witness ==
    /\ Tabled
    /\ last.error.type = "none"
    /\ \E c \in Coded : Len(last.out[name(c[1], c[2])]) >= 2
    /\ \E c \in Coded : last.out[name(c[1], c[2])] = << >>
    /\ \E c \in Cells \ Coded : name(c[1], c[2]) \notin DOMAIN last.out
    /\ \E c \in Coded : Downstream(c) \notin Cells

\* the places of the table, as <<key, position>>, and those that hold cell u
Entries == UNION {{<<key, k>> : k \in DOMAIN last.out[key]} : key \in DOMAIN last.out}
EntriesOf(u) == {p \in Entries : last.out[p[1]][p[2]] = u}

\* the cell the index gives for a cell at (0, 0) that holds the code
StepOfCode(code) == fd_cell_at([cell \in {<<0, 0>>} |-> code], 0, 0)
AdjacentSteps == ((-1 .. 1) \X (-1 .. 1)) \ {<<0, 0>>}

\* C27: in the table flow_direction_table returns, a cell that is not no-data
\* stands in at most one list, and in one exactly when its downstream cell is a
\* cell of the raster that is not no-data; the entries of all lists are as
\* many as those cells; the eight codes step to eight different adjacent
\* cells, so no cell stands in its own list and every listed cell is adjacent
\* to the cell of its key.
C27_ListedOnce ==
    /\ \A code \in fd_should : StepOfCode(code) \in AdjacentSteps
    /\ \A c1, c2 \in fd_should : c1 # c2 => StepOfCode(c1) # StepOfCode(c2)
    /\ (Tabled /\ last.error.type = "none") =>
          /\ \A u \in Coded :
                /\ Cardinality(EntriesOf(u)) <= 1
                /\ Cardinality(EntriesOf(u)) = 1 <=> Downstream(u) \in Coded
          /\ Cardinality(Entries) = Cardinality({u \in Coded : Downstream(u) \in Coded})
          /\ \A c \in Coded :
                /\ c \notin Listed(name(c[1], c[2]))
                /\ Listed(name(c[1], c[2])) \subseteq Around(c)

\* a table was returned for a raster in which a cell points to a cell that is
\* not no-data and is listed there, a cell points out of the raster and a
\* cell points to a no-data cell, the last two standing in no list
C27_Witness ==
    /\ Tabled
    /\ last.error.type = "none"
    /\ \E u \in Coded :
          /\ Downstream(u) \in Coded
          /\ u \in Listed(name(Downstream(u)[1], Downstream(u)[2]))
    /\ \E u \in Coded : Downstream(u) \notin Cells /\ EntriesOf(u) = {}
    /\ \E u \in Coded : Downstream(u) \in Cells \ Coded /\ EntriesOf(u) = {}

----------------------------------------------------------------------------
(* The pipeline on a 3 x 3 DEM with a pit in the middle: the properties *)

Centre == <<1, 1>>
Border == Cells \ {Centre}
\* the raster is 3 x 3 and its centre lies strictly below its eight border cells
CentreLowest(g) ==
    /\ shape = <<3, 3>>
    /\ \A cell \in Cells : ~IsNaN(g[cell])
    /\ \A b \in Border : g[Centre] < g[b]
MinBorder(g) == SetMin({g[b] : b \in Border})

\* the DEM was read with a pit in the middle, fill_sinks has filled it in
\* place and flow_direction without overrides has run on the filled DEM
PitFilledAndDirected ==
    /\ CentreLowest(source)
    /\ elev # source
    /\ Directed
    /\ last.forced = << >>
    /\ last.in = elev

\* C16 as claimed: fill_sinks raises the centre to min(border) + 0.1, then
\* flow_direction on the filled DEM makes each of the eight border cells point
\* to the centre, and flow_accumulation on those directions gives the centre 8.
C16_PitDrainsToCentre ==
    /\ (Filled /\ last.inplace /\ CentreLowest(source)) =>
          elev[Centre] = MinBorder(source) + Epsilon
    /\ PitFilledAndDirected => \A b \in Border : PointsTo(fd, b, Centre)
    /\ (PitFilledAndDirected /\ pc \in {"done", "overflow"}) =>
          (Returned /\ acc[Centre] = 8)

\* the border cells in the same row or column as border cell b and next to it
BesideOnBorder(b) ==
    {n \in Border : (n[1] = b[1] /\ n[2] - b[2] \in {-1, 1})
                       \/ (n[2] = b[2] /\ n[1] - b[1] \in {-1, 1})}
\* the border cells at the lowest border elevation of grid g
LowestBorder(g) == {b \in Border : g[b] = MinBorder(g)}

\* C16, amended: fill_sinks raises the centre to min(border) + 0.1 and leaves
\* the border as it was; then flow_direction on the filled DEM sends the
\* centre to a border cell that lies below it, and no border cell beside a
\* lowest border cell, in its row or column, points to the centre: at most
\* six of the eight border cells do.
C16_PitDrainsOut ==
    /\ (Filled /\ last.inplace /\ CentreLowest(source)) =>
          /\ elev[Centre] = MinBorder(source) + Epsilon
          /\ \A b \in Border : elev[b] = source[b]
    /\ PitFilledAndDirected =>
          /\ IsCode(fd[Centre])
          /\ Target(Centre, fd[Centre]) \in Border
          /\ elev[Target(Centre, fd[Centre])] < elev[Centre]
          /\ \A low \in LowestBorder(source) : \A b \in BesideOnBorder(low) :
                ~PointsTo(fd, b, Centre)
          /\ Cardinality({b \in Border : PointsTo(fd, b, Centre)}) <= 6

\* fill_sinks and flow_direction have run on a DEM with a pit in the middle
\* whose border holds three heights, one of them above the raised centre:
\* some border cells point to the centre, the lowest one among them, and
\* others do not
C16_Witness ==
    /\ PitFilledAndDirected
    /\ elev[Centre] = MinBorder(source) + Epsilon
    /\ Cardinality({source[b] : b \in Border}) >= 3
    /\ \E b \in Border : elev[b] > elev[Centre]
    /\ \E b \in Border : elev[b] < elev[Centre]
    /\ \E low \in LowestBorder(source) : PointsTo(fd, low, Centre)
    /\ \E b \in Border : ~PointsTo(fd, b, Centre)

----------------------------------------------------------------------------
(* The offset table and its opposites: the properties *)

\* the codes whose offset is the negation of the offset of code d
Negations(d) ==
    {e \in 0 .. 7 : DIR_OFFSETS[e] = <<-DIR_OFFSETS[d][1], -DIR_OFFSETS[d][2]>>}

\* what opposite_direction returns for the offset of code d
OppositeOf(d) == opposite_direction(DIR_OFFSETS[d][2], DIR_OFFSETS[d][1])

\* the pairing of the table, which no state changes
OppositesPaired ==
    \A d \in 0 .. 7 :
        /\ Cardinality(Negations(d)) = 1
        /\ OppositeOf(d) # << >>
        /\ OppositeOf(d)[1] \in Negations(d)
        /\ OppositeOf(OppositeOf(d)[1]) = <<d>>

\* C17: every code d has exactly one code whose offset is the negation of
\* d's offset, opposite_direction returns that code and never None for the
\* eight offsets, and the opposite of the opposite is d; a nested call of
\* accumulate_flow, entered through that pairing, stands on a cell whose code
\* points to the cell of the call around it.
C17_OppositePairs ==
    /\ OppositesPaired
    /\ \A i \in 1 .. Len(stack) - 1 :
          PointsTo(fd, <<stack[i + 1].r, stack[i + 1].c>>, <<stack[i].r, stack[i].c>>)

\* accumulate_flow stands in a nested call on a cell found upstream along a
\* diagonal, itself nested in a call on a cell found along a row or column
C17_Witness ==
    /\ pc = "walk"
    /\ Len(stack) >= 3
    /\ fd[<<stack[3].r, stack[3].c>>] \in {1, 3, 5, 7}
    /\ fd[<<stack[2].r, stack[2].c>>] \in {0, 2, 4, 6}

----------------------------------------------------------------------------
(* The pipeline without overrides *)

\* C24 as claimed: the directions that flow_direction computes without
\* overrides on the sink-filled DEM hold no cycle, and flow_accumulation on
\* them does not end in a call one too deep: it returns its raster.
C24_PipelineReturns ==
    (Directed /\ last.forced = << >> /\ elev = fill_sinks(shape, source)) =>
        /\ ~HasCycle(fd)
        /\ pc # "overflow"

\* C25: every code that flow_direction assigns without an override points, as
\* flow accumulation reads it (row + second component, column + first
\* component of the code's offset), at a cell inside the raster that has an
\* elevation.
C25_AutoPointsInside ==
    Directed =>
        \A cell \in Cells \ Overridden :
            IsCode(fd[cell]) =>
                /\ Target(cell, fd[cell]) \in Cells
                /\ ~IsNaN(elev[Target(cell, fd[cell])])

\* flow_direction has given a code to a corner cell that lies beside a
\* no-data cell, while the overridden cell points out of the raster
C25_Witness ==
    /\ Directed
    /\ \E cell \in Overridden :
          IsCode(fd[cell]) /\ Target(cell, fd[cell]) \notin Cells
    /\ \E cell \in Cells \ Overridden :
          /\ IsCode(fd[cell])
          /\ Cardinality(Around(cell)) = 3
          /\ \E n \in Around(cell) : IsNaN(elev[n])

----------------------------------------------------------------------------
(* The cell a direction code denotes *)

Converted == last.op = "convert_flow_direction_to_cell_indices"

\* the elevation of a cell, nan outside the raster
ElevationAt(cell) == IF cell \in Cells THEN elev[cell] ELSE NaN

\* C26 as claimed: the cell that convert_flow_direction_to_cell_indices
\* stores for a cell with code d is the neighbour towards which slope d of
\* the cell was measured, and the cell whose call of accumulate_flow takes
\* the flow of the cell.
C26_SameNeighbour ==
    Converted =>
        \A cell \in Cells :
            ~IsNaN(last.flow_dir[cell]) =>
                LET d == last.flow_dir[cell]
                    to == last.out[cell]
                IN  /\ last.slopes[cell][d] =
                          Quotient(Sub(elev[cell], ElevationAt(to)), d)
                    /\ to \in Cells
                    /\ \E k \in 0 .. 7 :
                          /\ NeighbourAt(to[1], to[2], k) = cell
                          /\ FlowsInto(shape, last.flow_dir, to[1], to[2], k)

====
